---- MODULE Spec2Model ----
(***************************************************************************)
(* Grasp: the learning store (zustand), the App shell, the chat panel and  *)
(* the notes panel of the renderer, together with the REST backend they    *)
(* talk to.  Every asynchronous handler is split at its await: the part    *)
(* before the await is one action, the backend answering is another, and   *)
(* the continuation (then / catch / finally) is a third.                   *)
(***************************************************************************)
EXTENDS Integers, Sequences, FiniteSets, TLC

VARIABLES
    \* the learning store
    currentVideo, currentTimestamp, isPlaying, messages, isLoadingChat,
    notes, activeTab, isLoadingVideo, error,
    \* App component state
    backendStatus, recentVideos,
    \* loadedVideoRef of ChatInterface and of NotesPanel
    chatLoadedRef, notesLoadedRef,
    \* HTTP requests issued so far, in the order they were issued
    reqs,
    \* the backend
    backendUp, dbVideos, chatLog, dbNotes, nextNoteId,
    \* the VideoPlayer instances mounted so far with their refs and state,
    \* the instance whose effect has run and whose cleanup has not, the
    \* YT.Player objects and the intervals created so far, window.YT and
    \* window.onYouTubeIframeAPIReady, who wrote currentTimestamp last, and
    \* whether the user holds the thumb of the seek bar
    insts, mountedInst, ytPlayers, intervals, ytLoaded, apiReadyCb, tsWriter,
    dragging,
    \* the last call of an API client function on a mocked axios instance:
    \* the function, its arguments, the HTTP request it made, the response
    \* data and the value it returned
    call,
    \* the context retriever: the question asked last (the similarity of
    \* each chunk to it), the playback timestamp it was asked at, and the
    \* contexts retrieved for it so far
    retrieval

storeVars == <<currentVideo, currentTimestamp, isPlaying, messages,
               isLoadingChat, notes, activeTab, isLoadingVideo, error>>
appVars == <<backendStatus, recentVideos>>
refVars == <<chatLoadedRef, notesLoadedRef>>
backendVars == <<backendUp, dbVideos, chatLog, dbNotes, nextNoteId>>
playerVars == <<insts, mountedInst, ytPlayers, intervals, ytLoaded, apiReadyCb,
                tsWriter, dragging>>
apiVars == <<call>>
retrVars == <<retrieval>>
vars == <<storeVars, appVars, refVars, reqs, backendVars, playerVars, apiVars, retrVars>>

----------------------------------------------------------------------------
(* Bounds *)

\* user actions issue requests only while fewer than MaxReqs were issued
\* (MaxChatReqs, MaxNoteReqs, MaxHealthReqs in the specifications of one
\* panel)
MaxReqs == 5
MaxChatReqs == 6
MaxNoteReqs == 5
MaxHealthReqs == 4
\* playback timestamps range over 0..MaxTime
MaxTime == 1
\* direct store calls keep the notes list at most this long
MaxNotes == 2
\* the VideoPlayer is mounted at most MaxMounts times
MaxMounts == 3
\* a transcript has MaxChunks chunks and a similarity score is in 0..MaxSim
MaxChunks == 6
MaxSim == 1

Videos == {"A", "B"}
Null == "null"
Times == 0..MaxTime

\* text typed into an input: a sequence of characters
Space == " "
UrlInputs == {<<>>, <<Space>>, <<Space, "B">>, <<"A", "B">>}
ChatInputs == {<<Space>>, <<Space, "q">>}
NoteInputs == {<<Space>>, <<"y", Space>>}

----------------------------------------------------------------------------
(* String.prototype.trim *)

RECURSIVE TrimStart(_)
TrimStart(s) ==
    IF s # <<>> /\ Head(s) = Space THEN TrimStart(Tail(s)) ELSE s

RECURSIVE TrimEnd(_)
TrimEnd(s) ==
    IF s # <<>> /\ s[Len(s)] = Space
    THEN TrimEnd(SubSeq(s, 1, Len(s) - 1))
    ELSE s

Trim(s) == TrimEnd(TrimStart(s))

----------------------------------------------------------------------------
(* The store's initial state and its operations on the notes and messages  *)

initialState ==
    [currentVideo |-> Null, currentTimestamp |-> 0, isPlaying |-> FALSE,
     messages |-> <<>>, isLoadingChat |-> FALSE, notes |-> <<>>,
     activeTab |-> "chat", isLoadingVideo |-> FALSE, error |-> Null]

\* Array.prototype.sort with (a, b) => a.timestamp - b.timestamp: a stable
\* sort, computed here by inserting each element after the elements that
\* do not compare greater
RECURSIVE InsertByTimestamp(_, _)
InsertByTimestamp(sorted, n) ==
    IF sorted = <<>> THEN <<n>>
    ELSE IF Head(sorted).timestamp - n.timestamp > 0
         THEN <<n>> \o sorted
         ELSE <<Head(sorted)>> \o InsertByTimestamp(Tail(sorted), n)

RECURSIVE SortByTimestamp(_)
SortByTimestamp(s) ==
    IF s = <<>> THEN <<>>
    ELSE InsertByTimestamp(SortByTimestamp(SubSeq(s, 1, Len(s) - 1)), s[Len(s)])

\* { ...n, ...updates }
Spread(n, updates) ==
    [f \in DOMAIN n \cup DOMAIN updates |->
        IF f \in DOMAIN updates THEN updates[f] ELSE n[f]]

\* [message, ...state.messages]
addMessagePrepends(ms, m) == <<m>> \o ms

addMessage(ms, m) == Append(ms, m)

addNote(ns, note) == SortByTimestamp(Append(ns, note))

\* n.id === noteId ? updates : n
updateNoteReplaces(ns, noteId, updates) ==
    [i \in DOMAIN ns |-> IF ns[i].id = noteId THEN updates ELSE ns[i]]

updateNote(ns, noteId, updates) ==
    [i \in DOMAIN ns |->
        IF ns[i].id = noteId THEN Spread(ns[i], updates) ELSE ns[i]]

\* filter((n) => n.id === noteId)
removeNoteKeepsOnlyId(ns, noteId) == SelectSeq(ns, LAMBDA n : n.id = noteId)

RECURSIVE removeNote(_, _)
removeNote(ns, noteId) ==
    IF ns = <<>> THEN <<>>
    ELSE IF Head(ns).id # noteId
         THEN <<Head(ns)>> \o removeNote(Tail(ns), noteId)
         ELSE removeNote(Tail(ns), noteId)

----------------------------------------------------------------------------
(* Requests *)

NoNote == [id |-> 0, video_id |-> Null, timestamp |-> 0, content |-> <<>>]
NoMessage == [role |-> Null, content |-> <<>>, ex |-> 0]

\* kind: which API client function issued it; video, num, ts, text: its
\* arguments; phase: pending, ok once the backend has answered 2xx, then
\* resolved or rejected once the awaiting handler has run (on the answer, or
\* on the error thrown); msgs, list, note, msg, vid: the response data
NewReq(kind, video, num, ts, text) ==
    [kind |-> kind, video |-> video, num |-> num, ts |-> ts, text |-> text,
     phase |-> "pending", msgs |-> <<>>, list |-> <<>>, note |-> NoNote,
     msg |-> NoMessage, vid |-> Null]

\* what is kept of a request whose handler has run
Settled(kind, phase) == [NewReq(kind, Null, 0, 0, <<>>) EXCEPT !.phase = phase]

\* the promise of request i settles: it resolves with the backend's answer,
\* or it rejects (network error, backend down, 4xx or 5xx) with nothing
\* persisted
Resolves(i) == i \in DOMAIN reqs /\ reqs[i].phase = "ok"
Rejects(i) == i \in DOMAIN reqs /\ reqs[i].phase = "pending"
Settles(i) == Resolves(i) \/ Rejects(i)
Consume(i) ==
    [reqs EXCEPT ![i] = Settled(reqs[i].kind,
                                IF Resolves(i) THEN "resolved" ELSE "rejected")]

\* the API client
healthCheckReq == NewReq("healthCheck", Null, 0, 0, <<>>)
listVideosReq == NewReq("listVideos", Null, 0, 0, <<>>)
loadVideoReq(url) == NewReq("loadVideo", Null, 0, 0, url)
sendMessageReq(videoId, message, ts) == NewReq("sendMessage", videoId, 0, ts, message)
getChatHistoryReq(videoId) == NewReq("getChatHistory", videoId, 0, 0, <<>>)
createNoteReq(videoId, ts, content) == NewReq("createNote", videoId, 0, ts, content)
getNotesReq(videoId) == NewReq("getNotes", videoId, 0, 0, <<>>)
updateNoteReq(noteId, content) == NewReq("updateNote", Null, noteId, 0, content)
deleteNoteReq(noteId) == NewReq("deleteNote", Null, noteId, 0, <<>>)

\* a healthCheck whose catch block returns true as well
healthCheckAlwaysTrue(i) == TRUE

\* healthCheck(): true when the request resolved, false when it threw
healthCheck(i) == Resolves(i)


----------------------------------------------------------------------------
(* The backend behind the REST surface *)

UserMessage(text, ex) == [role |-> "user", content |-> text, ex |-> ex]
AssistantMessage(ex) == [role |-> "assistant", content |-> <<"r">>, ex |-> ex]

\* POST /api/video/load: the video a URL names, Null for an invalid URL
ResolveUrl(url) == IF Len(url) = 1 /\ url[1] \in Videos THEN url[1] ELSE Null

DbHasNote(noteId) == \E k \in DOMAIN dbNotes : dbNotes[k].id = noteId

\* GET /api/notes/{video_id}: the notes of a video, sorted by timestamp
RECURSIVE SortedDbNotes(_)
SortedDbNotes(s) ==
    IF s = <<>> THEN <<>>
    ELSE LET k == CHOOSE k \in DOMAIN s :
                    \A j \in DOMAIN s :
                        \/ s[k].timestamp < s[j].timestamp
                        \/ s[k].timestamp = s[j].timestamp /\ k <= j
         IN <<s[k]>> \o SortedDbNotes(SubSeq(s, 1, k - 1) \o SubSeq(s, k + 1, Len(s)))

DbNotesOf(videoId) ==
    SortedDbNotes(SelectSeq(dbNotes, LAMBDA n : n.video_id = videoId))

\* a request the backend can answer 2xx
Servable(r) ==
    CASE r.kind = "loadVideo" -> ResolveUrl(r.text) # Null
      [] r.kind \in {"updateNote", "deleteNote"} -> DbHasNote(r.num)
      [] OTHER -> TRUE

\* the backend answers request i successfully
BackendHandle(i) ==
    /\ i \in DOMAIN reqs
    /\ reqs[i].phase = "pending"
    /\ backendUp
    /\ Servable(reqs[i])
    /\ LET r == reqs[i]
           ok == [r EXCEPT !.phase = "ok"]
       IN CASE r.kind = "healthCheck" ->
                 /\ reqs' = [reqs EXCEPT ![i] = ok]
                 /\ UNCHANGED <<dbVideos, chatLog, dbNotes, nextNoteId>>
            [] r.kind = "listVideos" ->
                 /\ reqs' = [reqs EXCEPT ![i] = [ok EXCEPT !.list = dbVideos]]
                 /\ UNCHANGED <<dbVideos, chatLog, dbNotes, nextNoteId>>
            [] r.kind = "loadVideo" ->
                 LET v == ResolveUrl(r.text)
                 IN /\ reqs' = [reqs EXCEPT ![i] = [ok EXCEPT !.vid = v]]
                    /\ dbVideos' = IF \E k \in DOMAIN dbVideos : dbVideos[k] = v
                                   THEN dbVideos
                                   ELSE <<v>> \o dbVideos
                    /\ UNCHANGED <<chatLog, dbNotes, nextNoteId>>
            [] r.kind = "getChatHistory" ->
                 /\ reqs' = [reqs EXCEPT ![i] = [ok EXCEPT !.msgs = chatLog[r.video]]]
                 /\ UNCHANGED <<dbVideos, chatLog, dbNotes, nextNoteId>>
            [] r.kind = "sendMessage" ->
                 /\ reqs' = [reqs EXCEPT ![i] = [ok EXCEPT !.msg = AssistantMessage(i)]]
                 /\ chatLog' = [chatLog EXCEPT ![r.video] =
                                    @ \o <<UserMessage(r.text, i), AssistantMessage(i)>>]
                 /\ UNCHANGED <<dbVideos, dbNotes, nextNoteId>>
            [] r.kind = "getNotes" ->
                 /\ reqs' = [reqs EXCEPT ![i] = [ok EXCEPT !.list = DbNotesOf(r.video)]]
                 /\ UNCHANGED <<dbVideos, chatLog, dbNotes, nextNoteId>>
            [] r.kind = "createNote" ->
                 LET n == [id |-> nextNoteId, video_id |-> r.video,
                           timestamp |-> r.ts, content |-> r.text]
                 IN /\ reqs' = [reqs EXCEPT ![i] = [ok EXCEPT !.note = n]]
                    /\ dbNotes' = Append(dbNotes, n)
                    /\ nextNoteId' = nextNoteId + 1
                    /\ UNCHANGED <<dbVideos, chatLog>>
            [] r.kind = "updateNote" ->
                 LET k == CHOOSE k \in DOMAIN dbNotes : dbNotes[k].id = r.num
                     n == [dbNotes[k] EXCEPT !.content = r.text]
                 IN /\ reqs' = [reqs EXCEPT ![i] = [ok EXCEPT !.note = n]]
                    /\ dbNotes' = [dbNotes EXCEPT ![k] = n]
                    /\ UNCHANGED <<dbVideos, chatLog, nextNoteId>>
            [] r.kind = "deleteNote" ->
                 /\ reqs' = [reqs EXCEPT ![i] = ok]
                 /\ dbNotes' = SelectSeq(dbNotes, LAMBDA n : n.id # r.num)
                 /\ UNCHANGED <<dbVideos, chatLog, nextNoteId>>
    /\ UNCHANGED <<storeVars, appVars, refVars, backendUp, playerVars, apiVars, retrVars>>

\* the backend process is started or stopped
BackendToggle ==
    /\ backendUp' = ~backendUp
    /\ UNCHANGED <<storeVars, appVars, refVars, reqs, dbVideos, chatLog,
                   dbNotes, nextNoteId, playerVars, apiVars, retrVars>>

----------------------------------------------------------------------------
(* App *)

SendFailedMessage == "Failed to send message. Is the backend running?"
CreateFailedMessage == "Failed to create note"
UpdateFailedMessage == "Failed to update note"
DeleteFailedMessage == "Failed to delete note"
\* err.message of the rejected request
LoadFailedMessage == "Request failed"

RecentLimit == 5
\* recentVideos.slice(0, 5)
RecentShown == SubSeq(recentVideos, 1,
                      IF Len(recentVideos) < RecentLimit THEN Len(recentVideos)
                      ELSE RecentLimit)

\* disabled attribute of the URL input and of the Load button
InputDisabled == isLoadingVideo \/ backendStatus # "online"
LoadDisabled(url) == Trim(url) = <<>> \/ isLoadingVideo \/ backendStatus # "online"

\* the effects on [currentVideo?.id] of ChatInterface and NotesPanel, run
\* after a render with current video v: the requests they issue
ChatEffect(v) ==
    IF v # Null /\ chatLoadedRef # v THEN <<getChatHistoryReq(v)>> ELSE <<>>
\* an effect that loads on every render, with no ref to stop it
NotesEffectEveryRender(v) == IF v # Null THEN <<getNotesReq(v)>> ELSE <<>>

NotesEffect(v) ==
    IF v # Null /\ notesLoadedRef # v THEN <<getNotesReq(v)>> ELSE <<>>

\* checkBackend, after the await
DeliverHealth(i) ==
    /\ Settles(i)
    /\ reqs[i].kind = "healthCheck"
    /\ backendStatus' = IF healthCheck(i) THEN "online" ELSE "offline"
    /\ reqs' = Consume(i)
    /\ UNCHANGED <<storeVars, recentVideos, refVars, backendVars, playerVars, apiVars, retrVars>>

\* fetchRecentVideos, after the await
DeliverListVideos(i) ==
    /\ Settles(i)
    /\ reqs[i].kind = "listVideos"
    /\ recentVideos' = IF Resolves(i) THEN reqs[i].list ELSE recentVideos
    /\ reqs' = Consume(i)
    /\ UNCHANGED <<storeVars, backendStatus, refVars, backendVars, playerVars, apiVars, retrVars>>

\* handleLoadVideo up to the await; the landing page is shown and the URL
\* input is enabled
HandleLoadVideo(url) ==
    /\ currentVideo = Null
    /\ ~InputDisabled
    /\ IF Trim(url) = <<>>
       THEN UNCHANGED vars
       ELSE /\ isLoadingVideo' = TRUE
            /\ error' = Null
            /\ reqs' = Append(reqs, loadVideoReq(Trim(url)))
            /\ UNCHANGED <<currentVideo, currentTimestamp, isPlaying, messages,
                           isLoadingChat, notes, activeTab, appVars, refVars,
                           backendVars, playerVars, apiVars, retrVars>>

\* handleLoadVideo with setIsLoadingVideo(false) at the end of the try block
\* instead of in finally
DeliverLoadVideoNoFinally(i) ==
    /\ Settles(i)
    /\ reqs[i].kind = "loadVideo"
    /\ IF Resolves(i)
       THEN LET v == reqs[i].vid
            IN /\ currentVideo' = v
               /\ error' = Null
               /\ isLoadingVideo' = FALSE
               /\ reqs' = Consume(i) \o <<listVideosReq>> \o ChatEffect(v)
                              \o NotesEffect(v)
               /\ chatLoadedRef' = v
               /\ notesLoadedRef' = v
       ELSE /\ error' = LoadFailedMessage
            /\ reqs' = Consume(i)
            /\ UNCHANGED <<currentVideo, isLoadingVideo, refVars>>
    /\ UNCHANGED <<currentTimestamp, isPlaying, messages, isLoadingChat, notes,
                   activeTab, appVars, backendVars, playerVars, apiVars, retrVars>>

\* handleLoadVideo after the await, and the effects of the render it causes
DeliverLoadVideo(i) ==
    /\ Settles(i)
    /\ reqs[i].kind = "loadVideo"
    /\ IF Resolves(i)
       THEN LET v == reqs[i].vid
            IN /\ currentVideo' = v
               /\ error' = Null
               /\ reqs' = Consume(i) \o <<listVideosReq>> \o ChatEffect(v)
                              \o NotesEffect(v)
               /\ chatLoadedRef' = v
               /\ notesLoadedRef' = v
       ELSE /\ error' = LoadFailedMessage
            /\ reqs' = Consume(i)
            /\ UNCHANGED <<currentVideo, refVars>>
    /\ isLoadingVideo' = FALSE
    /\ UNCHANGED <<currentTimestamp, isPlaying, messages, isLoadingChat, notes,
                   activeTab, appVars, backendVars, playerVars, apiVars, retrVars>>

\* handleSelectVideo on a recent video of the landing page, and the effects
\* of the render it causes
HandleSelectVideo(v) ==
    /\ currentVideo = Null
    /\ \E k \in DOMAIN RecentShown : RecentShown[k] = v
    /\ currentVideo' = v
    /\ error' = Null
    /\ reqs' = reqs \o ChatEffect(v) \o NotesEffect(v)
    /\ chatLoadedRef' = v
    /\ notesLoadedRef' = v
    /\ UNCHANGED <<currentTimestamp, isPlaying, messages, isLoadingChat, notes,
                   activeTab, isLoadingVideo, appVars, backendVars, playerVars, apiVars, retrVars>>

\* reset() that also aborts the requests in flight
HandleCloseVideoAborts ==
    /\ currentVideo # Null
    /\ currentVideo' = initialState.currentVideo
    /\ currentTimestamp' = initialState.currentTimestamp
    /\ isPlaying' = initialState.isPlaying
    /\ messages' = initialState.messages
    /\ isLoadingChat' = initialState.isLoadingChat
    /\ notes' = initialState.notes
    /\ activeTab' = initialState.activeTab
    /\ isLoadingVideo' = initialState.isLoadingVideo
    /\ error' = initialState.error
    /\ chatLoadedRef' = Null
    /\ notesLoadedRef' = Null
    /\ reqs' = [i \in DOMAIN reqs |->
                  IF reqs[i].phase \in {"pending", "ok"}
                  THEN Settled(reqs[i].kind, "rejected")
                  ELSE reqs[i]]
    /\ UNCHANGED <<appVars, backendVars, playerVars, apiVars, retrVars>>

\* handleCloseVideo: reset(); the player and both panels unmount
HandleCloseVideo ==
    /\ currentVideo # Null
    /\ currentVideo' = initialState.currentVideo
    /\ currentTimestamp' = initialState.currentTimestamp
    /\ isPlaying' = initialState.isPlaying
    /\ messages' = initialState.messages
    /\ isLoadingChat' = initialState.isLoadingChat
    /\ notes' = initialState.notes
    /\ activeTab' = initialState.activeTab
    /\ isLoadingVideo' = initialState.isLoadingVideo
    /\ error' = initialState.error
    /\ chatLoadedRef' = Null
    /\ notesLoadedRef' = Null
    /\ UNCHANGED <<appVars, reqs, backendVars, playerVars, apiVars, retrVars>>

\* the close button of the error banner
DismissError ==
    /\ error # Null
    /\ error' = Null
    /\ UNCHANGED <<currentVideo, currentTimestamp, isPlaying, messages,
                   isLoadingChat, notes, activeTab, isLoadingVideo, appVars,
                   refVars, reqs, backendVars, playerVars, apiVars, retrVars>>

\* the tab buttons
SetActiveTab(tab) ==
    /\ currentVideo # Null
    /\ activeTab' = tab
    /\ reqs' = reqs \o ChatEffect(currentVideo) \o NotesEffect(currentVideo)
    /\ UNCHANGED <<currentVideo, currentTimestamp, isPlaying, messages,
                   isLoadingChat, notes, isLoadingVideo, error, appVars,
                   refVars, backendVars, playerVars, apiVars, retrVars>>

\* the player's polling interval, or a move of the seek bar
SetCurrentTimestamp(t) ==
    /\ currentVideo # Null
    /\ currentTimestamp' = t
    /\ UNCHANGED <<currentVideo, isPlaying, messages, isLoadingChat, notes,
                   activeTab, isLoadingVideo, error, appVars, refVars, reqs,
                   backendVars, playerVars, apiVars, retrVars>>

----------------------------------------------------------------------------
(* ChatInterface *)

\* loadHistory that calls itself again from its catch block
DeliverHistoryRetries(i) ==
    /\ Settles(i)
    /\ reqs[i].kind = "getChatHistory"
    /\ messages' = IF Resolves(i) THEN reqs[i].msgs ELSE messages
    /\ reqs' = IF Resolves(i) THEN Consume(i)
               ELSE Append(Consume(i), getChatHistoryReq(reqs[i].video))
    /\ UNCHANGED <<currentVideo, currentTimestamp, isPlaying, isLoadingChat,
                   notes, activeTab, isLoadingVideo, error, appVars, refVars,
                   backendVars, playerVars, apiVars, retrVars>>

\* loadHistory, after the await
DeliverHistory(i) ==
    /\ Settles(i)
    /\ reqs[i].kind = "getChatHistory"
    /\ messages' = IF Resolves(i) THEN reqs[i].msgs ELSE messages
    /\ reqs' = Consume(i)
    /\ UNCHANGED <<currentVideo, currentTimestamp, isPlaying, isLoadingChat,
                   notes, activeTab, isLoadingVideo, error, appVars, refVars,
                   backendVars, playerVars, apiVars, retrVars>>

\* handleSend up to the await
HandleSend(text) ==
    /\ currentVideo # Null
    /\ IF Trim(text) = <<>> \/ isLoadingChat
       THEN UNCHANGED vars
       ELSE /\ messages' = addMessage(messages, UserMessage(Trim(text), Len(reqs) + 1))
            /\ isLoadingChat' = TRUE
            /\ reqs' = Append(reqs, sendMessageReq(currentVideo, Trim(text),
                                                   currentTimestamp))
            /\ UNCHANGED <<currentVideo, currentTimestamp, isPlaying, notes,
                           activeTab, isLoadingVideo, error, appVars, refVars,
                           backendVars, playerVars, apiVars, retrVars>>

\* handleSend with setIsLoadingChat(false) at the end of the try block
\* instead of in finally
DeliverSendNoFinally(i) ==
    /\ Settles(i)
    /\ reqs[i].kind = "sendMessage"
    /\ IF Resolves(i)
       THEN /\ messages' = addMessage(messages, reqs[i].msg)
            /\ isLoadingChat' = FALSE
            /\ UNCHANGED error
       ELSE /\ error' = SendFailedMessage
            /\ UNCHANGED <<messages, isLoadingChat>>
    /\ reqs' = Consume(i)
    /\ UNCHANGED <<currentVideo, currentTimestamp, isPlaying, notes, activeTab,
                   isLoadingVideo, appVars, refVars, backendVars, playerVars, apiVars, retrVars>>

\* handleSend with setIsLoadingChat(false) in the catch block only
DeliverSendClearsOnError(i) ==
    /\ Settles(i)
    /\ reqs[i].kind = "sendMessage"
    /\ IF Resolves(i)
       THEN /\ messages' = addMessage(messages, reqs[i].msg)
            /\ UNCHANGED <<error, isLoadingChat>>
       ELSE /\ error' = SendFailedMessage
            /\ isLoadingChat' = FALSE
            /\ UNCHANGED messages
    /\ reqs' = Consume(i)
    /\ UNCHANGED <<currentVideo, currentTimestamp, isPlaying, notes, activeTab,
                   isLoadingVideo, appVars, refVars, backendVars, playerVars,
                   apiVars, retrVars>>

\* handleSend after the await
DeliverSend(i) ==
    /\ Settles(i)
    /\ reqs[i].kind = "sendMessage"
    /\ IF Resolves(i)
       THEN /\ messages' = addMessage(messages, reqs[i].msg)
            /\ UNCHANGED error
       ELSE /\ error' = SendFailedMessage
            /\ UNCHANGED messages
    /\ isLoadingChat' = FALSE
    /\ reqs' = Consume(i)
    /\ UNCHANGED <<currentVideo, currentTimestamp, isPlaying, notes, activeTab,
                   isLoadingVideo, appVars, refVars, backendVars, playerVars, apiVars, retrVars>>

----------------------------------------------------------------------------
(* NotesPanel *)

InNotes(noteId) == \E k \in DOMAIN notes : notes[k].id = noteId

\* loadNotes, after the await
DeliverNotes(i) ==
    /\ Settles(i)
    /\ reqs[i].kind = "getNotes"
    /\ notes' = IF Resolves(i) THEN reqs[i].list ELSE notes
    /\ reqs' = Consume(i)
    /\ UNCHANGED <<currentVideo, currentTimestamp, isPlaying, messages,
                   isLoadingChat, activeTab, isLoadingVideo, error, appVars,
                   refVars, backendVars, playerVars, apiVars, retrVars>>

\* a handleCreateNote that files every note at the start of the video
HandleCreateNoteAtStart(text) ==
    /\ currentVideo # Null
    /\ IF Trim(text) = <<>>
       THEN UNCHANGED vars
       ELSE /\ reqs' = Append(reqs, createNoteReq(currentVideo, 0, Trim(text)))
            /\ UNCHANGED <<storeVars, appVars, refVars, backendVars, playerVars, apiVars, retrVars>>

\* handleCreateNote up to the await
HandleCreateNote(text) ==
    /\ currentVideo # Null
    /\ IF Trim(text) = <<>>
       THEN UNCHANGED vars
       ELSE /\ reqs' = Append(reqs, createNoteReq(currentVideo, currentTimestamp,
                                                  Trim(text)))
            /\ UNCHANGED <<storeVars, appVars, refVars, backendVars, playerVars, apiVars, retrVars>>

\* handleCreateNote after the await
DeliverCreateNote(i) ==
    /\ Settles(i)
    /\ reqs[i].kind = "createNote"
    /\ IF Resolves(i)
       THEN /\ notes' = addNote(notes, reqs[i].note)
            /\ UNCHANGED error
       ELSE /\ error' = CreateFailedMessage
            /\ UNCHANGED notes
    /\ reqs' = Consume(i)
    /\ UNCHANGED <<currentVideo, currentTimestamp, isPlaying, messages,
                   isLoadingChat, activeTab, isLoadingVideo, appVars, refVars,
                   backendVars, playerVars, apiVars, retrVars>>

\* handleUpdateNote up to the await, from the Save button of a listed note
HandleUpdateNote(noteId, text) ==
    /\ currentVideo # Null
    /\ InNotes(noteId)
    /\ IF Trim(text) = <<>>
       THEN UNCHANGED vars
       ELSE /\ reqs' = Append(reqs, updateNoteReq(noteId, Trim(text)))
            /\ UNCHANGED <<storeVars, appVars, refVars, backendVars, playerVars, apiVars, retrVars>>

\* handleUpdateNote after the await
DeliverUpdateNote(i) ==
    /\ Settles(i)
    /\ reqs[i].kind = "updateNote"
    /\ IF Resolves(i)
       THEN /\ notes' = updateNote(notes, reqs[i].num, reqs[i].note)
            /\ UNCHANGED error
       ELSE /\ error' = UpdateFailedMessage
            /\ UNCHANGED notes
    /\ reqs' = Consume(i)
    /\ UNCHANGED <<currentVideo, currentTimestamp, isPlaying, messages,
                   isLoadingChat, activeTab, isLoadingVideo, appVars, refVars,
                   backendVars, playerVars, apiVars, retrVars>>

\* a handleDeleteNote that removes the note from the list before it asks
\* the backend
HandleDeleteNoteOptimistic(noteId) ==
    /\ currentVideo # Null
    /\ InNotes(noteId)
    /\ notes' = removeNote(notes, noteId)
    /\ reqs' = Append(reqs, deleteNoteReq(noteId))
    /\ UNCHANGED <<currentVideo, currentTimestamp, isPlaying, messages,
                   isLoadingChat, activeTab, isLoadingVideo, error, appVars,
                   refVars, backendVars, playerVars, apiVars, retrVars>>

\* handleDeleteNote up to the await, from the delete button of a listed note
HandleDeleteNote(noteId) ==
    /\ currentVideo # Null
    /\ InNotes(noteId)
    /\ reqs' = Append(reqs, deleteNoteReq(noteId))
    /\ UNCHANGED <<storeVars, appVars, refVars, backendVars, playerVars, apiVars, retrVars>>

\* handleDeleteNote after the await
DeliverDeleteNote(i) ==
    /\ Settles(i)
    /\ reqs[i].kind = "deleteNote"
    /\ IF Resolves(i)
       THEN /\ notes' = removeNote(notes, reqs[i].num)
            /\ UNCHANGED error
       ELSE /\ error' = DeleteFailedMessage
            /\ UNCHANGED notes
    /\ reqs' = Consume(i)
    /\ UNCHANGED <<currentVideo, currentTimestamp, isPlaying, messages,
                   isLoadingChat, activeTab, isLoadingVideo, appVars, refVars,
                   backendVars, playerVars, apiVars, retrVars>>

----------------------------------------------------------------------------
(* The API client functions, called on a mocked axios instance *)

\* an optional argument: <<>> when the caller leaves it out, <<x>> when
\* the caller passes x
Optionals(S) == {<<>>} \cup {<<x>> : x \in S}
\* a parameter's default value
Default(opt, d) == IF opt = <<>> THEN d ELSE opt[1]

Undefined == "undefined"
NoBody == [none |-> TRUE]
Http(method, path, body) == [method |-> method, path |-> path, body |-> body]

\* JSON.stringify of { content, tags }: a property whose value is
\* undefined is left out
ContentAndTags(content, tags) ==
    IF content = <<>>
    THEN IF tags = <<>> THEN [f \in {} |-> <<>>] ELSE [tags |-> tags[1]]
    ELSE IF tags = <<>> THEN [content |-> content[1]]
         ELSE [content |-> content[1], tags |-> tags[1]]

\* a sendMessage whose curTimestamp parameter defaults to 1
sendMessageHttpDefaultsToOne(videoId, message, curTimestamp) ==
    Http("POST", <<"api", "chat", "message">>,
         [video_id |-> videoId, message |-> message,
          current_timestamp |-> Default(curTimestamp, 1)])

loadVideoHttp(url) == Http("POST", <<"api", "video", "load">>, [url |-> url])
getVideoHttp(videoId) == Http("GET", <<"api", "video", videoId>>, NoBody)
listVideosHttp == Http("GET", <<"api", "videos">>, NoBody)
sendMessageHttp(videoId, message, curTimestamp) ==
    Http("POST", <<"api", "chat", "message">>,
         [video_id |-> videoId, message |-> message,
          current_timestamp |-> Default(curTimestamp, 0)])
getChatHistoryHttp(videoId) ==
    Http("GET", <<"api", "chat", "history", videoId>>, NoBody)
createNoteHttp(videoId, timestamp, content, tags) ==
    Http("POST", <<"api", "notes">>,
         [video_id |-> videoId, timestamp |-> timestamp, content |-> content,
          tags |-> Default(tags, <<>>)])
getNotesHttp(videoId) == Http("GET", <<"api", "notes", videoId>>, NoBody)
updateNoteHttp(noteId, content, tags) ==
    Http("PUT", <<"api", "notes", noteId>>, ContentAndTags(content, tags))
deleteNoteHttp(noteId) == Http("DELETE", <<"api", "notes", noteId>>, NoBody)

\* return response.data; deleteNote returns nothing
ReturnOf(fn, data) == IF fn = "deleteNote" THEN Undefined ELSE data

NoCall == [fn |-> "none", args |-> <<>>, sent |-> <<>>, data |-> Undefined,
           returned |-> Undefined]

\* fn(args) is called, makes the request and gets a response carrying data
Calls(fn, args, request, data) ==
    /\ call' = [fn |-> fn, args |-> args, sent |-> <<request>>, data |-> data,
                returned |-> ReturnOf(fn, data)]
    /\ UNCHANGED <<storeVars, appVars, refVars, reqs, backendVars, playerVars,
                   retrVars>>

ApiData == {"data1", "data2"}
TagLists == {<<>>, <<"t">>}
ApiTexts == {<<"q">>, <<"y">>}

ApiLoadVideo(url, data) == Calls("loadVideo", <<url>>, loadVideoHttp(url), data)
ApiGetVideo(videoId, data) ==
    Calls("getVideo", <<videoId>>, getVideoHttp(videoId), data)
ApiListVideos(data) == Calls("listVideos", <<>>, listVideosHttp, data)
ApiSendMessage(videoId, message, curTimestamp, data) ==
    Calls("sendMessage", <<videoId, message, curTimestamp>>,
          sendMessageHttp(videoId, message, curTimestamp), data)
ApiGetChatHistory(videoId, data) ==
    Calls("getChatHistory", <<videoId>>, getChatHistoryHttp(videoId), data)
ApiCreateNote(videoId, timestamp, content, tags, data) ==
    Calls("createNote", <<videoId, timestamp, content, tags>>,
          createNoteHttp(videoId, timestamp, content, tags), data)
ApiGetNotes(videoId, data) ==
    Calls("getNotes", <<videoId>>, getNotesHttp(videoId), data)
ApiUpdateNote(noteId, content, tags, data) ==
    Calls("updateNote", <<noteId, content, tags>>,
          updateNoteHttp(noteId, content, tags), data)
ApiDeleteNote(noteId, data) ==
    Calls("deleteNote", <<noteId>>, deleteNoteHttp(noteId), data)

----------------------------------------------------------------------------
(* The context retriever behind POST /api/chat/message *)

\* top-K by embedding similarity, and the half-width in seconds of the
\* window around the playback timestamp
TopK == 5
WindowSeconds == 120

\* the chunker's output: chunk k, with chunk_index k, covers the seconds
\* from ChunkStart(k) to ChunkEnd(k); the chunks do not overlap and cover
\* the transcript
ChunkSeconds == 100
ChunkIds == 1..MaxChunks
ChunkStart(k) == (k - 1) * ChunkSeconds
ChunkEnd(k) == k * ChunkSeconds

\* what a question is to the retriever: the similarity of each chunk's
\* embedding to the question's
Similarities == [ChunkIds -> 0..MaxSim]
\* playback timestamps, every half chunk from the start to the end
AskTimes == {(h * ChunkSeconds) \div 2 : h \in 0..(2 * MaxChunks)}

\* a ranking by similarity alone
RanksBeforeBySimilarityOnly(sim, a, b) == sim[a] > sim[b]

\* chunk a ranks before chunk b: it is more similar, or as similar with a
\* lower chunk_index
RanksBefore(sim, a, b) == sim[a] > sim[b] \/ (sim[a] = sim[b] /\ a < b)

\* the rankings the vector search may return: k chunks of S, each one a
\* chunk that no remaining chunk ranks before
RECURSIVE Rankings(_, _, _)
Rankings(sim, S, k) ==
    IF k = 0 \/ S = {} THEN {<<>>}
    ELSE UNION {{<<c>> \o r : r \in Rankings(sim, S \ {c}, k - 1)} :
                    c \in {c \in S : \A d \in S : ~RanksBefore(sim, d, c)}}

\* the chunks whose time window intersects [t - 120, t + 120], by
\* chunk_index
RECURSIVE InWindowFrom(_, _)
InWindowFrom(k, t) ==
    IF k > MaxChunks THEN <<>>
    ELSE IF ChunkStart(k) <= t + WindowSeconds /\ ChunkEnd(k) >= t - WindowSeconds
         THEN <<k>> \o InWindowFrom(k + 1, t)
         ELSE InWindowFrom(k + 1, t)

\* the union: the ranked chunks, then the window's chunks that are not
\* among them
Union(ranked, window) ==
    ranked \o SelectSeq(window, LAMBDA c : \A j \in DOMAIN ranked : ranked[j] # c)

NoRetrieval == [asked |-> FALSE, sim |-> <<>>, t |-> 0, contexts |-> {}]

\* the question of a run is asked, at timestamp t
Ask(sim, t) ==
    /\ ~retrieval.asked
    /\ retrieval' = [asked |-> TRUE, sim |-> sim, t |-> t, contexts |-> {}]
    /\ UNCHANGED <<storeVars, appVars, refVars, reqs, backendVars, playerVars,
                   apiVars>>

\* the context for the question is retrieved (once more)
Retrieve ==
    /\ retrieval.asked
    /\ \E ranked \in Rankings(retrieval.sim, ChunkIds, TopK) :
          retrieval' = [retrieval EXCEPT !.contexts =
                            @ \cup {Union(ranked, InWindowFrom(1, retrieval.t))}]
    /\ UNCHANGED <<storeVars, appVars, refVars, reqs, backendVars, playerVars,
                   apiVars>>

----------------------------------------------------------------------------
(* The application *)

\* exchanges and notes of earlier sessions, kept by the backend
Note1 == [id |-> 1, video_id |-> "A", timestamp |-> 1, content |-> <<"x">>]
Note2 == [id |-> 2, video_id |-> "A", timestamp |-> 0, content |-> <<"x">>]

\* the store as created, App mounted and its mount effect run: checkBackend()
\* and fetchRecentVideos() have issued their requests
Init ==
    /\ currentVideo = initialState.currentVideo
    /\ currentTimestamp = initialState.currentTimestamp
    /\ isPlaying = initialState.isPlaying
    /\ messages = initialState.messages
    /\ isLoadingChat = initialState.isLoadingChat
    /\ notes = initialState.notes
    /\ activeTab = initialState.activeTab
    /\ isLoadingVideo = initialState.isLoadingVideo
    /\ error = initialState.error
    /\ backendStatus = "checking"
    /\ recentVideos = <<>>
    /\ chatLoadedRef = Null
    /\ notesLoadedRef = Null
    /\ reqs = <<healthCheckReq, listVideosReq>>
    /\ backendUp = TRUE
    /\ dbVideos = <<"A">>
    /\ chatLog = [v \in Videos |->
                    IF v = "A" THEN <<UserMessage(<<"q">>, 0), AssistantMessage(0)>>
                    ELSE <<>>]
    /\ dbNotes = <<Note1, Note2>>
    /\ nextNoteId = 3
    /\ insts = <<>>
    /\ mountedInst = 0
    /\ ytPlayers = <<>>
    /\ intervals = <<>>
    /\ ytLoaded = FALSE
    /\ apiReadyCb = 0
    /\ tsWriter = "none"
    /\ dragging = FALSE
    /\ call = NoCall
    /\ retrieval = NoRetrieval

----------------------------------------------------------------------------
(* VideoPlayer *)

\* a VideoPlayer instance as its effect finds it on mount: playerRef and
\* intervalRef null (0), isSeekingRef false, isReady false, and whether its
\* setTimeout(initPlayer, 100) is pending
NewInst(videoId) ==
    [videoId |-> videoId, playerRef |-> 0, intervalRef |-> 0,
     isSeeking |-> FALSE, isReady |-> FALSE, timeout |-> FALSE]

\* document.getElementById('youtube-player'): the element is rendered
\* exactly while a video is open
ContainerExists == currentVideo # Null

\* initPlayer of instance inst, whose record becomes ins[inst]: without the
\* container it returns; otherwise it empties the container, creates a
\* YT.Player in it and starts the polling interval, storing both in the
\* refs of inst
initPlayer(inst, ins) ==
    IF ~ContainerExists
    THEN /\ insts' = ins
         /\ UNCHANGED <<ytPlayers, intervals>>
    ELSE /\ ytPlayers' =
                Append([q \in DOMAIN ytPlayers |->
                            [ytPlayers[q] EXCEPT !.inDom = FALSE]],
                       [inst |-> inst, video |-> ins[inst].videoId,
                        ready |-> FALSE, destroyed |-> FALSE, inDom |-> TRUE])
         /\ intervals' = Append(intervals, [inst |-> inst, live |-> TRUE])
         /\ insts' = [ins EXCEPT ![inst].playerRef = Len(ytPlayers) + 1,
                                 ![inst].intervalRef = Len(intervals) + 1]

\* the effect on [videoId] of a VideoPlayer that has just been rendered:
\* its refs are empty, so there is nothing to clean up; it arranges for
\* initPlayer to run, from the API's ready callback or from a timeout
VideoPlayerMounts ==
    /\ currentVideo # Null
    /\ mountedInst = 0
    /\ Len(insts) < MaxMounts
    /\ insts' = Append(insts, [NewInst(currentVideo) EXCEPT !.timeout = ytLoaded])
    /\ mountedInst' = Len(insts) + 1
    /\ apiReadyCb' = IF ytLoaded THEN apiReadyCb ELSE Len(insts) + 1
    /\ UNCHANGED <<storeVars, appVars, refVars, reqs, backendVars, apiVars, retrVars, ytPlayers,
                   intervals, ytLoaded, tsWriter, dragging>>

\* the cleanup of the effect, run after the video was closed: it clears the
\* interval and destroys the player its refs hold
VideoPlayerUnmounts ==
    /\ currentVideo = Null
    /\ mountedInst # 0
    /\ intervals' = [k \in DOMAIN intervals |->
                        IF k = insts[mountedInst].intervalRef
                        THEN [intervals[k] EXCEPT !.live = FALSE]
                        ELSE intervals[k]]
    /\ ytPlayers' = [q \in DOMAIN ytPlayers |->
                        IF q = insts[mountedInst].playerRef
                        THEN [ytPlayers[q] EXCEPT !.destroyed = TRUE, !.inDom = FALSE]
                        ELSE [ytPlayers[q] EXCEPT !.inDom = FALSE]]
    /\ mountedInst' = 0
    /\ dragging' = FALSE
    /\ UNCHANGED <<storeVars, appVars, refVars, reqs, backendVars, apiVars, retrVars, insts,
                   ytLoaded, apiReadyCb, tsWriter>>

\* the effect on [videoId] of the mounted VideoPlayer after a render with
\* another video: the cleanup of its last run clears the interval and
\* destroys the player, then the effect calls setIsReady(false), empties
\* the refs and arranges for initPlayer to run for the new video; the
\* instance and its isSeekingRef stay
VideoPlayerVideoChanges ==
    /\ currentVideo # Null
    /\ mountedInst # 0
    /\ insts[mountedInst].videoId # currentVideo
    /\ intervals' = [k \in DOMAIN intervals |->
                        IF k = insts[mountedInst].intervalRef
                        THEN [intervals[k] EXCEPT !.live = FALSE]
                        ELSE intervals[k]]
    /\ ytPlayers' = [q \in DOMAIN ytPlayers |->
                        IF q = insts[mountedInst].playerRef
                        THEN [ytPlayers[q] EXCEPT !.destroyed = TRUE, !.inDom = FALSE]
                        ELSE ytPlayers[q]]
    /\ insts' = [insts EXCEPT ![mountedInst] =
                    [@ EXCEPT !.videoId = currentVideo, !.playerRef = 0,
                              !.intervalRef = 0, !.isReady = FALSE,
                              !.timeout = @ \/ ytLoaded]]
    /\ apiReadyCb' = IF ytLoaded THEN apiReadyCb ELSE mountedInst
    /\ UNCHANGED <<storeVars, appVars, refVars, reqs, backendVars, apiVars, retrVars,
                   mountedInst, ytLoaded, tsWriter, dragging>>

\* the script of the IFrame API has loaded: window.YT is defined and
\* window.onYouTubeIframeAPIReady is called
YTApiLoads ==
    /\ ~ytLoaded
    /\ apiReadyCb # 0
    /\ ytLoaded' = TRUE
    /\ initPlayer(apiReadyCb, insts)
    /\ UNCHANGED <<storeVars, appVars, refVars, reqs, backendVars, apiVars, retrVars, mountedInst,
                   apiReadyCb, tsWriter, dragging>>

\* the 100 ms timeout of instance inst expires; timeouts of equal delay
\* expire in the order they were set
TimeoutFires(inst) ==
    /\ inst \in DOMAIN insts
    /\ insts[inst].timeout
    /\ \A j \in 1..(inst - 1) : ~insts[j].timeout
    /\ initPlayer(inst, [insts EXCEPT ![inst].timeout = FALSE])
    /\ UNCHANGED <<storeVars, appVars, refVars, reqs, backendVars, apiVars, retrVars, mountedInst,
                   ytLoaded, apiReadyCb, tsWriter, dragging>>

\* onReady of player q: the player's API methods are there from now on and
\* the instance that created it calls setIsReady(true)
PlayerReady(q) ==
    /\ q \in DOMAIN ytPlayers
    /\ ~ytPlayers[q].ready /\ ytPlayers[q].inDom /\ ~ytPlayers[q].destroyed
    /\ ytPlayers' = [ytPlayers EXCEPT ![q].ready = TRUE]
    /\ insts' = [insts EXCEPT ![ytPlayers[q].inst].isReady = TRUE]
    /\ UNCHANGED <<storeVars, appVars, refVars, reqs, backendVars, apiVars, retrVars, mountedInst,
                   intervals, ytLoaded, apiReadyCb, tsWriter, dragging>>

\* a tick of interval k that passes its test (the player of its instance
\* has getCurrentTime and the instance is not seeking) and writes the time
\* the player reports
Tick(k, t) ==
    /\ k \in DOMAIN intervals
    /\ intervals[k].live
    /\ LET inst == insts[intervals[k].inst]
       IN /\ inst.playerRef # 0
          /\ ytPlayers[inst.playerRef].ready
          /\ ~inst.isSeeking
    /\ currentTimestamp' = t
    /\ tsWriter' = "tick"
    /\ UNCHANGED <<currentVideo, isPlaying, messages, isLoadingChat, notes,
                   activeTab, isLoadingVideo, error, appVars, refVars, reqs,
                   backendVars, apiVars, retrVars, insts, mountedInst, ytPlayers, intervals,
                   ytLoaded, apiReadyCb, dragging>>

\* the seek bar of the mounted instance is enabled
SeekEnabled ==
    currentVideo # Null /\ mountedInst # 0 /\ insts[mountedInst].isReady

Seeking == mountedInst # 0 /\ insts[mountedInst].isSeeking

\* onMouseDown / onTouchStart of the seek bar: the user takes the thumb
HandleSeekStart ==
    /\ SeekEnabled
    /\ ~dragging
    /\ insts' = [insts EXCEPT ![mountedInst].isSeeking = TRUE]
    /\ dragging' = TRUE
    /\ tsWriter' = "none"
    /\ UNCHANGED <<storeVars, appVars, refVars, reqs, backendVars, apiVars, retrVars, mountedInst,
                   ytPlayers, intervals, ytLoaded, apiReadyCb>>

HandleSeek(t) ==
    /\ SeekEnabled
    /\ currentTimestamp' = t
    /\ tsWriter' = "seek"
    /\ UNCHANGED <<currentVideo, isPlaying, messages, isLoadingChat, notes,
                   activeTab, isLoadingVideo, error, appVars, refVars, reqs,
                   backendVars, apiVars, retrVars, insts, mountedInst, ytPlayers, intervals,
                   ytLoaded, apiReadyCb, dragging>>

\* onMouseUp / onTouchEnd of the seek bar: the user lets the thumb go
HandleSeekEnd ==
    /\ SeekEnabled
    /\ dragging
    /\ insts' = [insts EXCEPT ![mountedInst].isSeeking = FALSE]
    /\ dragging' = FALSE
    /\ tsWriter' = "none"
    /\ UNCHANGED <<storeVars, appVars, refVars, reqs, backendVars, apiVars, retrVars, mountedInst,
                   ytPlayers, intervals, ytLoaded, apiReadyCb>>

\* the user lets the thumb go while the seek bar is disabled: a disabled
\* input gets no mouse event, so no handler runs
ReleaseWhileDisabled ==
    /\ dragging
    /\ mountedInst # 0
    /\ ~SeekEnabled
    /\ dragging' = FALSE
    /\ UNCHANGED <<storeVars, appVars, refVars, reqs, backendVars, apiVars, retrVars,
                   insts, mountedInst, ytPlayers, intervals, ytLoaded, apiReadyCb,
                   tsWriter>>

CanIssue(limit) == Len(reqs) < limit

\* the whole renderer: the App shell, the chat panel and the notes panel
Next ==
    \/ CanIssue(MaxReqs) /\ \E url \in UrlInputs : HandleLoadVideo(url)
    \/ CanIssue(MaxReqs) /\ \E v \in Videos : HandleSelectVideo(v)
    \/ CanIssue(MaxReqs) /\ \E text \in ChatInputs : HandleSend(text)
    \/ CanIssue(MaxReqs) /\ \E text \in NoteInputs : HandleCreateNote(text)
    \/ CanIssue(MaxReqs) /\ \E noteId \in 1..(nextNoteId - 1), text \in NoteInputs :
            HandleUpdateNote(noteId, text)
    \/ CanIssue(MaxReqs) /\ \E noteId \in 1..(nextNoteId - 1) : HandleDeleteNote(noteId)
    \/ HandleCloseVideo
    \/ DismissError
    \/ \E tab \in {"chat", "notes"} : SetActiveTab(tab)
    \/ \E t \in Times : SetCurrentTimestamp(t)
    \/ \E i \in DOMAIN reqs : BackendHandle(i)
    \/ \E i \in DOMAIN reqs : DeliverHealth(i)
    \/ \E i \in DOMAIN reqs : DeliverListVideos(i)
    \/ \E i \in DOMAIN reqs : DeliverLoadVideo(i)
    \/ \E i \in DOMAIN reqs : DeliverHistory(i)
    \/ \E i \in DOMAIN reqs : DeliverSend(i)
    \/ \E i \in DOMAIN reqs : DeliverNotes(i)
    \/ \E i \in DOMAIN reqs : DeliverCreateNote(i)
    \/ \E i \in DOMAIN reqs : DeliverUpdateNote(i)
    \/ \E i \in DOMAIN reqs : DeliverDeleteNote(i)

Spec == Init /\ [][Next]_vars

\* the App shell and the chat panel: the user leaves the notes panel alone
\* and its getNotes request stays unanswered
ChatNext ==
    \/ CanIssue(MaxChatReqs) /\ \E url \in UrlInputs : HandleLoadVideo(url)
    \/ CanIssue(MaxChatReqs) /\ \E v \in Videos : HandleSelectVideo(v)
    \/ CanIssue(MaxChatReqs) /\ \E text \in ChatInputs : HandleSend(text)
    \/ HandleCloseVideo
    \/ DismissError
    \/ \E i \in DOMAIN reqs : reqs[i].kind # "getNotes" /\ BackendHandle(i)
    \/ \E i \in DOMAIN reqs : DeliverHealth(i)
    \/ \E i \in DOMAIN reqs : DeliverListVideos(i)
    \/ \E i \in DOMAIN reqs : DeliverLoadVideo(i)
    \/ \E i \in DOMAIN reqs : DeliverHistory(i)
    \/ \E i \in DOMAIN reqs : DeliverSend(i)

ChatSpec == Init /\ [][ChatNext]_vars

\* the chat panel when every chat request completes: the response or the
\* network error arrives and the handler awaiting it runs
ChatLiveSpec ==
    /\ Init
    /\ [][ChatNext]_vars
    /\ WF_vars(\E i \in DOMAIN reqs : DeliverSend(i))

\* the App shell and the notes panel: the user leaves the chat panel alone
\* and its getChatHistory request stays unanswered
NotesNext ==
    \/ CanIssue(MaxNoteReqs) /\ \E url \in UrlInputs : HandleLoadVideo(url)
    \/ CanIssue(MaxNoteReqs) /\ \E v \in Videos : HandleSelectVideo(v)
    \/ CanIssue(MaxNoteReqs) /\ \E text \in NoteInputs : HandleCreateNote(text)
    \/ CanIssue(MaxNoteReqs) /\ \E noteId \in 1..(nextNoteId - 1), text \in NoteInputs :
            HandleUpdateNote(noteId, text)
    \/ CanIssue(MaxNoteReqs) /\ \E noteId \in 1..(nextNoteId - 1) : HandleDeleteNote(noteId)
    \/ HandleCloseVideo
    \/ DismissError
    \/ \E t \in Times : SetCurrentTimestamp(t)
    \/ \E i \in DOMAIN reqs : reqs[i].kind # "getChatHistory" /\ BackendHandle(i)
    \/ \E i \in DOMAIN reqs : DeliverHealth(i)
    \/ \E i \in DOMAIN reqs : DeliverListVideos(i)
    \/ \E i \in DOMAIN reqs : DeliverLoadVideo(i)
    \/ \E i \in DOMAIN reqs : DeliverNotes(i)
    \/ \E i \in DOMAIN reqs : DeliverCreateNote(i)
    \/ \E i \in DOMAIN reqs : DeliverUpdateNote(i)
    \/ \E i \in DOMAIN reqs : DeliverDeleteNote(i)

NotesSpec == Init /\ [][NotesNext]_vars

\* the App shell while the backend process is started and stopped; every
\* request is eventually answered or fails, and every settled promise runs
\* its handler
HealthNext ==
    \/ BackendToggle
    \/ CanIssue(MaxHealthReqs) /\ \E url \in UrlInputs : HandleLoadVideo(url)
    \/ CanIssue(MaxHealthReqs) /\ \E v \in Videos : HandleSelectVideo(v)
    \/ HandleCloseVideo
    \/ DismissError
    \/ \E i \in DOMAIN reqs :
            reqs[i].kind \in {"healthCheck", "listVideos", "loadVideo"} /\ BackendHandle(i)
    \/ \E i \in DOMAIN reqs : DeliverHealth(i)
    \/ \E i \in DOMAIN reqs : DeliverListVideos(i)
    \/ \E i \in DOMAIN reqs : DeliverLoadVideo(i)

HealthSpec ==
    /\ Init
    /\ [][HealthNext]_vars
    /\ WF_vars(\E i \in DOMAIN reqs : DeliverHealth(i))
    /\ WF_vars(\E i \in DOMAIN reqs : DeliverListVideos(i))
    /\ WF_vars(\E i \in DOMAIN reqs : DeliverLoadVideo(i))

\* the effect or cleanup of the last render has run
EffectsFlushed ==
    /\ (currentVideo # Null) <=> (mountedInst # 0)
    /\ mountedInst # 0 => insts[mountedInst].videoId = currentVideo

\* the video player under opening and closing of videos; React runs the
\* effect or cleanup of a render caused by a click before any other task
\* (a timer, a script's load event, another click) runs
PlayerNext ==
    \/ EffectsFlushed /\ Len(insts) < MaxMounts /\ \E v \in Videos : HandleSelectVideo(v)
    \/ EffectsFlushed /\ HandleCloseVideo
    \/ \E i \in DOMAIN reqs : reqs[i].kind = "listVideos" /\ BackendHandle(i)
    \/ \E i \in DOMAIN reqs : DeliverListVideos(i)
    \/ VideoPlayerMounts
    \/ VideoPlayerUnmounts
    \/ EffectsFlushed /\ YTApiLoads
    \/ EffectsFlushed /\ \E inst \in DOMAIN insts : TimeoutFires(inst)
    \/ EffectsFlushed /\ \E q \in DOMAIN ytPlayers : PlayerReady(q)
    \/ EffectsFlushed /\ \E k \in DOMAIN intervals, t \in Times : Tick(k, t)
    \/ HandleSeekStart
    \/ \E t \in Times : HandleSeek(t)
    \/ HandleSeekEnd

PlayerSpec == Init /\ [][PlayerNext]_vars

\* the video player while a video is loaded by URL or selected from the
\* recent ones, and stays open: a load's response may arrive after a recent
\* video was opened, and then the mounted player is rendered with another
\* video.  The render comes once no timeout of the instance is pending.
SeekNext ==
    \/ CanIssue(MaxReqs) /\ EffectsFlushed /\ \E url \in UrlInputs : HandleLoadVideo(url)
    \/ EffectsFlushed /\ Len(insts) < MaxMounts /\ \E v \in Videos : HandleSelectVideo(v)
    \/ \E i \in DOMAIN reqs :
            reqs[i].kind \in {"healthCheck", "listVideos", "loadVideo"} /\ BackendHandle(i)
    \/ \E i \in DOMAIN reqs : DeliverHealth(i)
    \/ \E i \in DOMAIN reqs : DeliverListVideos(i)
    \/ /\ EffectsFlushed
       /\ Len(insts) < MaxMounts
       /\ mountedInst # 0 => ~insts[mountedInst].timeout
       /\ \E i \in DOMAIN reqs : DeliverLoadVideo(i)
    \/ VideoPlayerMounts
    \/ VideoPlayerVideoChanges
    \/ EffectsFlushed /\ YTApiLoads
    \/ EffectsFlushed /\ \E inst \in DOMAIN insts : TimeoutFires(inst)
    \/ EffectsFlushed /\ \E q \in DOMAIN ytPlayers : PlayerReady(q)
    \/ EffectsFlushed /\ \E k \in DOMAIN intervals, t \in Times : Tick(k, t)
    \/ EffectsFlushed /\ HandleSeekStart
    \/ EffectsFlushed /\ \E t \in Times : HandleSeek(t)
    \/ EffectsFlushed /\ HandleSeekEnd
    \/ EffectsFlushed /\ ReleaseWhileDisabled

\* every drag ends: the user lets the thumb go
SeekSpec ==
    /\ Init
    /\ [][SeekNext]_vars
    /\ WF_vars(VideoPlayerMounts)
    /\ WF_vars(VideoPlayerVideoChanges)
    /\ WF_vars(EffectsFlushed /\ HandleSeekEnd)
    /\ WF_vars(EffectsFlushed /\ ReleaseWhileDisabled)

\* the API client functions called one after the other, as api.test.ts does
ApiNext ==
    \/ \E url \in UrlInputs, data \in ApiData : ApiLoadVideo(url, data)
    \/ \E videoId \in Videos, data \in ApiData : ApiGetVideo(videoId, data)
    \/ \E data \in ApiData : ApiListVideos(data)
    \/ \E videoId \in Videos, message \in ApiTexts, ts \in Optionals(Times),
          data \in ApiData : ApiSendMessage(videoId, message, ts, data)
    \/ \E videoId \in Videos, data \in ApiData : ApiGetChatHistory(videoId, data)
    \/ \E videoId \in Videos, t \in Times, content \in ApiTexts,
          tags \in Optionals(TagLists), data \in ApiData :
            ApiCreateNote(videoId, t, content, tags, data)
    \/ \E videoId \in Videos, data \in ApiData : ApiGetNotes(videoId, data)
    \/ \E noteId \in 1..(MaxNotes + 1), content \in Optionals(ApiTexts),
          tags \in Optionals(TagLists), data \in ApiData :
            ApiUpdateNote(noteId, content, tags, data)
    \/ \E noteId \in 1..(MaxNotes + 1), data \in ApiData : ApiDeleteNote(noteId, data)

ApiSpec == Init /\ [][ApiNext]_vars

\* a question asked of the context retriever, retrieved any number of times
RetrieverNext ==
    \/ \E sim \in Similarities, t \in AskTimes : Ask(sim, t)
    \/ Retrieve

RetrieverSpec == Init /\ [][RetrieverNext]_vars

----------------------------------------------------------------------------
(* The store called directly, as its unit tests call it *)

NoteContents == {<<"x">>, <<"y">>}
NoteIds == 1..(MaxNotes + 1)
StoreNotes ==
    {[id |-> i, video_id |-> "A", timestamp |-> t, content |-> c] :
        i \in NoteIds, t \in Times, c \in NoteContents}

\* a list as GET /api/notes/{video_id} returns it: distinct ids, sorted by
\* timestamp
BackendLists ==
    {SortedDbNotes([k \in DOMAIN ts |->
            [id |-> k, video_id |-> "A", timestamp |-> ts[k], content |-> <<"x">>]]) :
        ts \in UNION {[1..m -> Times] : m \in 0..MaxNotes}}

StoreSetNotes(list) ==
    /\ notes' = list
    /\ UNCHANGED <<currentVideo, currentTimestamp, isPlaying, messages,
                   isLoadingChat, activeTab, isLoadingVideo, error, appVars,
                   refVars, reqs, backendVars, playerVars, apiVars, retrVars>>

StoreAddNote(note) ==
    /\ Len(notes) < MaxNotes
    /\ notes' = addNote(notes, note)
    /\ UNCHANGED <<currentVideo, currentTimestamp, isPlaying, messages,
                   isLoadingChat, activeTab, isLoadingVideo, error, appVars,
                   refVars, reqs, backendVars, playerVars, apiVars, retrVars>>

StoreUpdateNote(noteId, updates) ==
    /\ notes' = updateNote(notes, noteId, updates)
    /\ UNCHANGED <<currentVideo, currentTimestamp, isPlaying, messages,
                   isLoadingChat, activeTab, isLoadingVideo, error, appVars,
                   refVars, reqs, backendVars, playerVars, apiVars, retrVars>>

StoreRemoveNote(noteId) ==
    /\ notes' = removeNote(notes, noteId)
    /\ UNCHANGED <<currentVideo, currentTimestamp, isPlaying, messages,
                   isLoadingChat, activeTab, isLoadingVideo, error, appVars,
                   refVars, reqs, backendVars, playerVars, apiVars, retrVars>>

StoreNext ==
    \/ \E list \in BackendLists : StoreSetNotes(list)
    \/ \E note \in StoreNotes : StoreAddNote(note)
    \/ \E noteId \in NoteIds, t \in Times :
            StoreUpdateNote(noteId, [timestamp |-> t])
    \/ \E noteId \in NoteIds, c \in NoteContents :
            StoreUpdateNote(noteId, [content |-> c])
    \/ \E noteId \in NoteIds : StoreRemoveNote(noteId)

StoreSpec == Init /\ [][StoreNext]_vars

----------------------------------------------------------------------------
(* The store's setters, called directly as the unit tests call them *)

\* the data fields of the store
StoreState ==
    [currentVideo |-> currentVideo, currentTimestamp |-> currentTimestamp,
     isPlaying |-> isPlaying, messages |-> messages,
     isLoadingChat |-> isLoadingChat, notes |-> notes, activeTab |-> activeTab,
     isLoadingVideo |-> isLoadingVideo, error |-> error]

\* set({ currentVideo: video })
setCurrentVideoKeepsError(st, video) == Spread(st, [currentVideo |-> video])

\* set(partial) merges the partial state into the state, as a spread does
setCurrentVideo(st, video) == Spread(st, [currentVideo |-> video, error |-> Null])
setCurrentTimestamp(st, timestamp) == Spread(st, [currentTimestamp |-> timestamp])
setIsPlaying(st, playing) == Spread(st, [isPlaying |-> playing])
setMessages(st, ms) == Spread(st, [messages |-> ms])
setIsLoadingChat(st, loading) == Spread(st, [isLoadingChat |-> loading])
setNotes(st, ns) == Spread(st, [notes |-> ns])
setActiveTab(st, tab) == Spread(st, [activeTab |-> tab])
setIsLoadingVideo(st, loading) == Spread(st, [isLoadingVideo |-> loading])
setError(st, e) == Spread(st, [error |-> e])

\* a reset that forgets to clear the error
resetKeepsError(st) == Spread(st, [initialState EXCEPT !.error = st.error])

reset(st) == Spread(st, initialState)

\* the store takes the state st
Becomes(st) ==
    /\ currentVideo' = st.currentVideo
    /\ currentTimestamp' = st.currentTimestamp
    /\ isPlaying' = st.isPlaying
    /\ messages' = st.messages
    /\ isLoadingChat' = st.isLoadingChat
    /\ notes' = st.notes
    /\ activeTab' = st.activeTab
    /\ isLoadingVideo' = st.isLoadingVideo
    /\ error' = st.error
    /\ UNCHANGED <<appVars, refVars, reqs, backendVars, playerVars, apiVars, retrVars>>

MessageLists ==
    {<<>>, <<UserMessage(<<"q">>, 0)>>,
     <<UserMessage(<<"q">>, 0), AssistantMessage(0)>>}
Errors == {Null, SendFailedMessage, CreateFailedMessage}
Tabs == {"chat", "notes"}

SetterNext ==
    \/ \E video \in Videos \cup {Null} : Becomes(setCurrentVideo(StoreState, video))
    \/ \E t \in Times : Becomes(setCurrentTimestamp(StoreState, t))
    \/ \E b \in BOOLEAN : Becomes(setIsPlaying(StoreState, b))
    \/ \E ms \in MessageLists : Becomes(setMessages(StoreState, ms))
    \/ \E b \in BOOLEAN : Becomes(setIsLoadingChat(StoreState, b))
    \/ \E ns \in BackendLists : Becomes(setNotes(StoreState, ns))
    \/ \E tab \in Tabs : Becomes(setActiveTab(StoreState, tab))
    \/ \E b \in BOOLEAN : Becomes(setIsLoadingVideo(StoreState, b))
    \/ \E e \in Errors : Becomes(setError(StoreState, e))
    \/ Becomes(reset(StoreState))

SetterSpec == Init /\ [][SetterNext]_vars

----------------------------------------------------------------------------
(* Properties *)

IsSorted(ns) ==
    \A k \in 1..(Len(ns) - 1) : ns[k].timestamp <= ns[k + 1].timestamp

\* C1: after any sequence of setNotes (with a list the backend returned),
\* addNote, updateNote and removeNote, the store's notes are ordered by
\* timestamp ascending.
NotesAlwaysSorted == IsSorted(notes)

\* the handler awaiting request i runs in this step, on the answer
\* (Resolved) or on the error thrown (Rejected)
Resolved(i, kind) ==
    reqs[i].kind = kind /\ Resolves(i) /\ reqs'[i].phase = "resolved"
Rejected(i, kind) ==
    reqs[i].kind = kind /\ Rejects(i) /\ reqs'[i].phase = "rejected"
HasRun(kind, phase) ==
    \E i \in DOMAIN reqs : reqs[i].kind = kind /\ reqs[i].phase = phase

IsPrefix(a, b) == Len(a) <= Len(b) /\ SubSeq(b, 1, Len(a)) = a

\* C2: a successful handleDeleteNote(id) leaves the notes list equal to the
\* previous list without the entries whose id is id, every other note kept
\* unchanged and in the same relative order, and removing an id that is not
\* in the list changes nothing.
DeleteRemovesExactlyThatId ==
    [][\A i \in DOMAIN reqs :
          Resolved(i, "deleteNote") =>
              /\ notes' = SelectSeq(notes, LAMBDA n : n.id # reqs[i].num)
              /\ \A k \in DOMAIN notes' : notes'[k].id # reqs[i].num
              /\ ~InNotes(reqs[i].num) => notes' = notes]_vars

\* a delete has removed note 2 from the list of video A and kept note 1
DeleteWitness ==
    /\ HasRun("deleteNote", "resolved")
    /\ currentVideo = "A"
    /\ notes = <<Note1>>
    /\ ~DbHasNote(2)

\* a delete of a note that is no longer listed has run
DeleteAbsentWitness ==
    /\ HasRun("deleteNote", "resolved")
    /\ notes = <<>>
    /\ DbHasNote(1) # DbHasNote(2)

\* no sendMessage or getChatHistory request is in flight
ChatIdle ==
    \A i \in DOMAIN reqs :
        reqs[i].kind \in {"sendMessage", "getChatHistory"} =>
            reqs[i].phase \in {"resolved", "rejected"}

\* (user message, assistant reply) pairs in the order the exchanges started
PairsInOrder(ms) ==
    /\ Len(ms) % 2 = 0
    /\ \A k \in 1..(Len(ms) \div 2) :
          /\ ms[2 * k - 1].role = "user"
          /\ ms[2 * k].role = "assistant"
          /\ ms[2 * k - 1].ex = ms[2 * k].ex
          /\ k > 1 => ms[2 * k - 2].ex < ms[2 * k - 1].ex

\* C3: whenever no chat request is in flight, after any sequence of sends
\* and history loads, the messages list is a sequence of (user message,
\* assistant reply) pairs in the order the exchanges were started.  Stated
\* for the runs most favourable to it: every send was answered.
ChatHistoryAlternates ==
    (ChatIdle /\ ~HasRun("sendMessage", "rejected")) => PairsInOrder(messages)

\* C4: while one video stays open, the messages list of an earlier state is
\* a prefix of the messages list of every later state.
MessageLogAppendOnly ==
    [][(currentVideo # Null /\ currentVideo' = currentVideo) =>
            IsPrefix(messages, messages')]_vars

\* C5: whenever a backend request issued by the UI fails (load video, list
\* videos, send message, load chat history, load notes, create, update or
\* delete note), the store's error becomes a non-null message.
AllFailuresReported ==
    [][\A i \in DOMAIN reqs :
          (reqs[i].kind # "healthCheck" /\ Rejected(i, reqs[i].kind)) =>
              error' # Null]_vars

\* C6: when a chat send fails, error is set to the one send-failure message,
\* no assistant message is appended, the messages shown (the user message
\* among them) stay as they are, and isLoadingChat returns to false.
SendFailureSurfaced ==
    [][\A i \in DOMAIN reqs :
          Rejected(i, "sendMessage") =>
              /\ error' = SendFailedMessage
              /\ messages' = messages
              /\ isLoadingChat' = FALSE]_vars

\* a send has failed: the banner shows, the user message is still the last
\* message and the spinner is gone
SendFailureWitness ==
    \E i \in DOMAIN reqs :
        /\ reqs[i].kind = "sendMessage"
        /\ reqs[i].phase = "rejected"
        /\ error = SendFailedMessage
        /\ messages # <<>>
        /\ messages[Len(messages)] = UserMessage(<<"q">>, i)
        /\ ~isLoadingChat

\* the reply to exchange e is listed only once the backend has answered
\* request e, and never before the user message of e
RepliesFollow ==
    \A j \in DOMAIN messages :
        (messages[j].role = "assistant" /\ messages[j].ex > 0) =>
            /\ messages[j].ex \in DOMAIN reqs
            /\ reqs[messages[j].ex].kind = "sendMessage"
            /\ reqs[messages[j].ex].phase \in {"ok", "resolved"}
            /\ \A k \in DOMAIN messages :
                  (messages[k].role = "user" /\ messages[k].ex = messages[j].ex)
                      => k < j

\* C7: the user message is appended to the messages list in the step that
\* issues the request, the reply is appended only after the provider has
\* answered, and a reply is never listed before the user message it answers.
UserBeforeReply ==
    [][/\ \A i \in DOMAIN reqs' :
             (i \notin DOMAIN reqs /\ reqs'[i].kind = "sendMessage") =>
                 messages' = Append(messages, UserMessage(reqs'[i].text, i))
       /\ \A i \in DOMAIN reqs :
             (reqs[i].kind = "sendMessage" /\ reqs[i].phase = "pending"
              /\ reqs'[i].phase # "ok") =>
                 ~\E j \in DOMAIN messages' : messages'[j] = AssistantMessage(i)
       /\ RepliesFollow']_vars

\* an exchange has completed: its user message and its reply are listed, in
\* this order
ExchangeWitness ==
    \E i \in DOMAIN reqs :
        /\ reqs[i].kind = "sendMessage"
        /\ reqs[i].phase = "resolved"
        /\ Len(messages) >= 2
        /\ messages[Len(messages) - 1] = UserMessage(<<"q">>, i)
        /\ messages[Len(messages)] = AssistantMessage(i)

\* what the handler awaiting request i does to the store when the request
\* resolves
Applied(i) ==
    CASE reqs[i].kind = "sendMessage" ->
            /\ messages' = Append(messages, reqs[i].msg)
            /\ isLoadingChat' = FALSE
      [] reqs[i].kind = "getChatHistory" -> messages' = reqs[i].msgs
      [] reqs[i].kind = "getNotes" -> notes' = reqs[i].list
      [] reqs[i].kind = "createNote" ->
            /\ Len(notes') = Len(notes) + 1
            /\ \E k \in DOMAIN notes' : notes'[k] = reqs[i].note
      [] reqs[i].kind = "updateNote" ->
            /\ Len(notes') = Len(notes)
            /\ \A k \in DOMAIN notes :
                  notes'[k] = IF notes[k].id = reqs[i].num THEN reqs[i].note
                              ELSE notes[k]
      [] reqs[i].kind = "deleteNote" ->
            \A k \in DOMAIN notes' : notes'[k].id # reqs[i].num
      [] OTHER -> TRUE

\* C8: closing the video or changing the current video aborts no request in
\* flight, and when a response arrives its handler applies it to the store
\* whatever the current video is.
NoCancellation ==
    [][/\ currentVideo' # currentVideo =>
             \A i \in DOMAIN reqs :
                 \/ reqs'[i] = reqs[i]
                 \/ reqs[i].kind = "loadVideo" /\ Settles(i)
                        /\ reqs'[i].phase \in {"resolved", "rejected"}
       /\ \A i \in DOMAIN reqs :
             (Resolves(i) /\ reqs'[i].phase = "resolved") => Applied(i)]_vars

\* the reply to a question asked about a video was added to the list after
\* the video was closed
LateReplyWitness ==
    \E i \in DOMAIN reqs :
        /\ reqs[i].kind = "sendMessage"
        /\ reqs[i].phase = "resolved"
        /\ currentVideo = Null
        /\ messages = <<AssistantMessage(i)>>

\* C9: health checks keep being issued, so when the backend becomes
\* available (unavailable) the connectivity status eventually becomes
\* 'online' ('offline').
StatusFollowsBackend ==
    /\ (backendUp /\ backendStatus # "online")
            ~> (~backendUp \/ backendStatus = "online")
    /\ (~backendUp /\ backendStatus # "offline")
            ~> (backendUp \/ backendStatus = "offline")

\* C10: a failed health check only sets the connectivity status to
\* 'offline'; it never sets the error banner and never prevents the user
\* from submitting a video URL.
OfflineIsNotBlocking ==
    [][\A i \in DOMAIN reqs :
          Rejected(i, "healthCheck") =>
              /\ backendStatus' = "offline"
              /\ error' = error
              /\ (currentVideo' = Null /\ ~isLoadingVideo') =>
                    \A url \in UrlInputs :
                        Trim(url) # <<>> => ~LoadDisabled(url)']_vars

\* the requests issued in this step
Issued == {i \in DOMAIN reqs' : i \notin DOMAIN reqs}
\* a handler's continuation runs in this step
Continues ==
    \E i \in DOMAIN reqs : reqs'[i].phase \in {"resolved", "rejected"}
                            /\ reqs[i].phase \notin {"resolved", "rejected"}

\* C11: there is no automatic retry.  A user action (load video, send
\* message, create, update or delete a note) issues exactly one request, a
\* history or notes load issues one request, and the step in which a failed
\* request's handler runs issues no request; the only request issued by a
\* continuation is after a successful load.
NoAutomaticRetry ==
    [][/\ \A i \in DOMAIN reqs :
             Rejected(i, reqs[i].kind) => DOMAIN reqs' = DOMAIN reqs
       /\ \A i \in Issued :
             reqs'[i].kind \in {"loadVideo", "sendMessage", "createNote",
                                "updateNote", "deleteNote"} =>
                 Issued = {i} /\ ~Continues
       /\ \A i, j \in Issued :
             (reqs'[i].kind = reqs'[j].kind) => i = j
       /\ (Issued # {} /\ Continues) =>
             \E i \in DOMAIN reqs : Resolved(i, "loadVideo")
       /\ \A i \in DOMAIN reqs : reqs[i].kind = reqs'[i].kind]_vars

\* a send and a notes load have failed, no request was issued again and
\* nothing is in flight
NoRetryWitness ==
    /\ HasRun("sendMessage", "rejected")
    /\ HasRun("getNotes", "rejected")
    /\ \A i \in DOMAIN reqs : reqs[i].phase \in {"resolved", "rejected"}
    /\ currentVideo # Null

\* C12: reset() restores the initial state from any reachable store state:
\* currentVideo null, currentTimestamp 0, isPlaying false, messages and
\* notes empty, isLoadingChat and isLoadingVideo false, activeTab 'chat' and
\* error null; resetting twice gives the same state as resetting once.
ResetRestoresInitial ==
    LET r == reset(StoreState) IN
    /\ DOMAIN r = DOMAIN StoreState
    /\ r.currentVideo = Null
    /\ r.currentTimestamp = 0
    /\ r.isPlaying = FALSE
    /\ r.messages = <<>>
    /\ r.notes = <<>>
    /\ r.isLoadingChat = FALSE
    /\ r.isLoadingVideo = FALSE
    /\ r.activeTab = "chat"
    /\ r.error = Null
    /\ reset(r) = r

\* a store state that differs from the initial state in every field
AllFieldsSet ==
    \A f \in DOMAIN StoreState : StoreState[f] # initialState[f]

\* the note of ns at position k after an update of noteId by updates: the
\* fields named in updates take the new values, the others are kept
Updated(n, updates) ==
    [f \in DOMAIN n |-> IF f \in DOMAIN updates THEN updates[f] ELSE n[f]]

UpdateKeepsFrame(ns, noteId, updates) ==
    LET r == updateNote(ns, noteId, updates) IN
    /\ DOMAIN r = DOMAIN ns
    /\ \A k \in DOMAIN ns :
          /\ DOMAIN r[k] = DOMAIN ns[k]
          /\ r[k].id = ns[k].id
          /\ ns[k].id # noteId => r[k] = ns[k]
          /\ ns[k].id = noteId => r[k] = Updated(ns[k], updates)
    /\ (\A k \in DOMAIN ns : ns[k].id # noteId) => r = ns

\* C13: updateNote(id, updates) changes only the note whose id is id: the
\* fields named in updates take the new values and the omitted fields keep
\* theirs; every other note, the length of the list and the order of its
\* entries are unchanged, and with no note of that id the list is unchanged.
UpdateNoteFrame ==
    \A noteId \in NoteIds :
        /\ \A c \in NoteContents : UpdateKeepsFrame(notes, noteId, [content |-> c])
        /\ \A t \in Times : UpdateKeepsFrame(notes, noteId, [timestamp |-> t])
        /\ \A c \in NoteContents, t \in Times :
              UpdateKeepsFrame(notes, noteId, [content |-> c, timestamp |-> t])

\* the content of note 1 was updated and note 2, listed after it, was not
UpdatedOneNote ==
    /\ Len(notes) = 2
    /\ notes[1] = [id |-> 1, video_id |-> "A", timestamp |-> 0, content |-> <<"y">>]
    /\ notes[2] = [id |-> 2, video_id |-> "A", timestamp |-> 0, content |-> <<"x">>]

\* C15: each simple setter sets its own field to the value given and leaves
\* every other field unchanged; setCurrentVideo sets currentVideo and sets
\* error to null, leaving messages, notes, currentTimestamp and every other
\* field unchanged.
SettersFrame ==
    LET st == StoreState IN
    /\ \A t \in Times :
          setCurrentTimestamp(st, t) = [st EXCEPT !.currentTimestamp = t]
    /\ \A b \in BOOLEAN :
          /\ setIsPlaying(st, b) = [st EXCEPT !.isPlaying = b]
          /\ setIsLoadingChat(st, b) = [st EXCEPT !.isLoadingChat = b]
          /\ setIsLoadingVideo(st, b) = [st EXCEPT !.isLoadingVideo = b]
    /\ \A ms \in MessageLists : setMessages(st, ms) = [st EXCEPT !.messages = ms]
    /\ \A ns \in BackendLists : setNotes(st, ns) = [st EXCEPT !.notes = ns]
    /\ \A tab \in Tabs : setActiveTab(st, tab) = [st EXCEPT !.activeTab = tab]
    /\ \A e \in Errors : setError(st, e) = [st EXCEPT !.error = e]
    /\ \A video \in Videos \cup {Null} :
          setCurrentVideo(st, video) =
              [st EXCEPT !.currentVideo = video, !.error = Null]

\* a video was set on a store holding messages, notes, a timestamp and
\* flags: the error is cleared and everything else is still there
VideoSetOnFullStore ==
    /\ currentVideo = "B"
    /\ error = Null
    /\ messages # <<>>
    /\ notes # <<>>
    /\ currentTimestamp = MaxTime
    /\ isPlaying /\ isLoadingChat /\ isLoadingVideo
    /\ activeTab = "notes"

\* C14: healthCheck() never fails: it returns true when GET /health
\* completed successfully and false when the request failed, so checkBackend
\* always gets a value to set the status from, and in both cases exactly one
\* request was issued.
HealthCheckTotal ==
    [][\A i \in DOMAIN reqs :
          (reqs[i].kind = "healthCheck" /\ Settles(i)
           /\ reqs'[i].phase \in {"resolved", "rejected"}) =>
              /\ healthCheck(i) \in BOOLEAN
              /\ healthCheck(i) = (reqs[i].phase = "ok")
              /\ backendStatus' = IF reqs[i].phase = "ok" THEN "online" ELSE "offline"
              /\ error' = error
              /\ DOMAIN reqs' = DOMAIN reqs
              /\ Cardinality({j \in DOMAIN reqs' : reqs'[j].kind = "healthCheck"}) = 1]_vars

\* the health check failed and returned false
HealthFailedWitness ==
    /\ HasRun("healthCheck", "rejected")
    /\ backendStatus = "offline"
    /\ error = Null

\* C16: chat history and notes are loaded once per video and not again on
\* tab switches: a getChatHistory or getNotes request is issued only in a
\* step that changes the current video, one of each for the new video, and
\* a switch of the tab issues no request and changes neither messages nor
\* notes.
LoadedOncePerVideo ==
    [][/\ \A i \in Issued :
             reqs'[i].kind \in {"getChatHistory", "getNotes"} =>
                 /\ currentVideo' # currentVideo
                 /\ reqs'[i].video = currentVideo'
                 /\ \A j \in Issued : reqs'[j].kind = reqs'[i].kind => j = i
       /\ (activeTab' # activeTab /\ currentVideo' = currentVideo) =>
             /\ DOMAIN reqs' = DOMAIN reqs
             /\ messages' = messages
             /\ notes' = notes]_vars

\* the notes tab is shown, both loads of the open video have been made once
\* and have been answered
TabSwitchedWitness ==
    /\ currentVideo = "A"
    /\ activeTab = "notes"
    /\ notes # <<>>
    /\ messages # <<>>
    /\ Cardinality({i \in DOMAIN reqs :
                        reqs[i].kind \in {"getChatHistory", "getNotes"}}) = 2
    /\ HasRun("getChatHistory", "resolved")
    /\ HasRun("getNotes", "resolved")

\* C17: timestamp updates are paused while the seek bar is dragged: between
\* handleSeekStart and the matching handleSeekEnd no tick of the polling
\* interval writes currentTimestamp, which changes only through handleSeek.
TicksPausedWhileSeeking ==
    [][(Seeking /\ currentVideo' = currentVideo) =>
          /\ ~(tsWriter' = "tick" /\ tsWriter # "tick")
          /\ currentTimestamp' # currentTimestamp => tsWriter' = "seek"]_vars

LivePlayers == {q \in DOMAIN ytPlayers : ~ytPlayers[q].destroyed}
LiveIntervals == {k \in DOMAIN intervals : intervals[k].live}

\* C18: the previous player is destroyed and its interval cleared when the
\* video changes or the VideoPlayer unmounts: at any time at most one
\* player and at most one polling interval are live, and none is live while
\* no VideoPlayer is mounted, also when a delayed initPlayer runs after the
\* cleanup.
OnePlayerOneInterval ==
    /\ Cardinality(LivePlayers) <= 1
    /\ Cardinality(LiveIntervals) <= 1
    /\ mountedInst = 0 => LivePlayers = {} /\ LiveIntervals = {}

\* the request of the REST surface for a call of fn with arguments a:
\* POST /api/video/load {url}, GET /api/video/{id}, GET /api/videos,
\* POST /api/chat/message {video_id, message, current_timestamp},
\* GET /api/chat/history/{video_id},
\* POST /api/notes {video_id, timestamp, content, tags},
\* GET /api/notes/{video_id}, PUT /api/notes/{id} with the fields given,
\* DELETE /api/notes/{id}
RestRequest(fn, a) ==
    CASE fn = "loadVideo" ->
            [method |-> "POST", path |-> <<"api", "video", "load">>,
             body |-> [url |-> a[1]]]
      [] fn = "getVideo" ->
            [method |-> "GET", path |-> <<"api", "video", a[1]>>, body |-> NoBody]
      [] fn = "listVideos" ->
            [method |-> "GET", path |-> <<"api", "videos">>, body |-> NoBody]
      [] fn = "sendMessage" ->
            [method |-> "POST", path |-> <<"api", "chat", "message">>,
             body |-> [video_id |-> a[1], message |-> a[2],
                       current_timestamp |-> IF a[3] = <<>> THEN 0 ELSE a[3][1]]]
      [] fn = "getChatHistory" ->
            [method |-> "GET", path |-> <<"api", "chat", "history", a[1]>>,
             body |-> NoBody]
      [] fn = "createNote" ->
            [method |-> "POST", path |-> <<"api", "notes">>,
             body |-> [video_id |-> a[1], timestamp |-> a[2], content |-> a[3],
                       tags |-> IF a[4] = <<>> THEN <<>> ELSE a[4][1]]]
      [] fn = "getNotes" ->
            [method |-> "GET", path |-> <<"api", "notes", a[1]>>, body |-> NoBody]
      [] fn = "updateNote" ->
            [method |-> "PUT", path |-> <<"api", "notes", a[1]>>,
             body |-> [f \in {g \in {"content", "tags"} :
                                a[IF g = "content" THEN 2 ELSE 3] # <<>>} |->
                          a[IF f = "content" THEN 2 ELSE 3][1]]]
      [] fn = "deleteNote" ->
            [method |-> "DELETE", path |-> <<"api", "notes", a[1]>>, body |-> NoBody]

\* C19: each API client function issues exactly one request, with the
\* method, path and body of the REST surface, and returns the response data
\* unchanged (deleteNote returns nothing); sendMessage without a timestamp
\* sends current_timestamp 0 and createNote without tags sends an empty tag
\* list.
ApiMatchesRest ==
    call.fn # "none" =>
        /\ Len(call.sent) = 1
        /\ call.sent[1] = RestRequest(call.fn, call.args)
        /\ call.fn # "deleteNote" => call.returned = call.data
        /\ call.fn = "deleteNote" => call.returned = Undefined
        /\ (call.fn = "sendMessage" /\ call.args[3] = <<>>) =>
              call.sent[1].body.current_timestamp = 0
        /\ (call.fn = "createNote" /\ call.args[4] = <<>>) =>
              call.sent[1].body.tags = <<>>

\* sendMessage was called without a timestamp
SendWithoutTimestamp ==
    /\ call.fn = "sendMessage"
    /\ call.args[3] = <<>>
    /\ call.sent[1].body.current_timestamp = 0
    /\ call.returned = "data2"

\* C20: a chat message carries the playback timestamp at send time, and a
\* note the timestamp at creation: every sendMessage request that handleSend
\* issues, and every createNote request that handleCreateNote issues, has
\* the store's currentTimestamp and the id of the store's current video as
\* they are at the moment of the call.
CarriesTimestampAtSend ==
    [][\A i \in Issued :
          reqs'[i].kind \in {"sendMessage", "createNote"} =>
              /\ currentVideo # Null
              /\ reqs'[i].ts = currentTimestamp
              /\ reqs'[i].video = currentVideo]_vars

\* a message was sent, or a note created, after the playback position had
\* moved off the start
SentAtLaterTimestamp ==
    \E i \in DOMAIN reqs :
        /\ reqs[i].kind \in {"sendMessage", "createNote"}
        /\ reqs[i].phase = "pending"
        /\ reqs[i].ts = MaxTime
        /\ reqs[i].video = currentVideo

\* the 5 chunks most similar to the question, ties broken by ascending
\* chunk_index: the chunks that fewer than 5 chunks come before
MostSimilar(sim) ==
    {c \in ChunkIds :
        Cardinality({d \in ChunkIds :
            sim[d] > sim[c] \/ (sim[d] = sim[c] /\ d < c)}) < 5}
\* the chunks whose time window intersects [t - 120, t + 120]
NearTimestamp(t) ==
    {c \in ChunkIds : ~(ChunkEnd(c) < t - 120 \/ ChunkStart(c) > t + 120)}

\* C21: the context retrieved for a question at playback timestamp t is the
\* union, without duplicate chunk ids, of the 5 chunks most similar to the
\* question (ties broken by ascending chunk_index) and of all chunks whose
\* time window intersects [t - 120 s, t + 120 s]; for a fixed question,
\* timestamp, embeddings and chunk set every retrieval gives the same
\* context.
ContextIsDeterministicUnion ==
    /\ \A ctx \in retrieval.contexts :
          /\ \A j, k \in DOMAIN ctx : ctx[j] = ctx[k] => j = k
          /\ {ctx[j] : j \in DOMAIN ctx} =
                MostSimilar(retrieval.sim) \cup NearTimestamp(retrieval.t)
    /\ Cardinality(retrieval.contexts) <= 1

\* a context was retrieved for a question to which the fifth and the sixth
\* chunk by similarity are equally similar; one chunk is both among the most
\* similar and near the timestamp, and one is near the timestamp only
TiedRetrievalWitness ==
    /\ retrieval.contexts # {}
    /\ \E a \in MostSimilar(retrieval.sim), b \in ChunkIds \ MostSimilar(retrieval.sim) :
          retrieval.sim[a] = retrieval.sim[b]
    /\ MostSimilar(retrieval.sim) \cap NearTimestamp(retrieval.t) # {}
    /\ NearTimestamp(retrieval.t) \ MostSimilar(retrieval.sim) # {}

\* the handler awaiting request i runs in this step
Runs(i) == Settles(i) /\ reqs'[i].phase \in {"resolved", "rejected"}

\* C22: the messages in the store are those of the current video.  Every
\* reply in the list is a reply the backend logged for the video that is
\* open, and the handler of a getChatHistory or sendMessage request made for
\* a video that is no longer the current one leaves the list as it is.
MessagesOfCurrentVideo ==
    [][/\ \A i \in DOMAIN reqs :
             (reqs[i].kind \in {"getChatHistory", "sendMessage"} /\ Runs(i)
              /\ reqs[i].video # currentVideo) => messages' = messages
       /\ \A j \in DOMAIN messages' :
             messages'[j].role = "assistant" =>
                 /\ currentVideo' # Null
                 /\ \E k \in DOMAIN chatLog'[currentVideo'] :
                       chatLog'[currentVideo'][k] = messages'[j]]_vars

\* C23: the notes in the store are those of the current video.  With a
\* video open every note in the list has the video_id of the current video,
\* and with no video open the list is empty, also after a late response of
\* getNotes, createNote or updateNote.
NotesOfCurrentVideo ==
    /\ currentVideo # Null =>
          \A k \in DOMAIN notes : notes[k].video_id = currentVideo
    /\ currentVideo = Null => notes = <<>>

\* the sendMessage requests whose handler has not run yet
SendsInFlight ==
    {i \in DOMAIN reqs : reqs[i].kind = "sendMessage"
                         /\ reqs[i].phase \in {"pending", "ok"}}

\* C24: at most one chat request is in flight at any time.  A sendMessage
\* request is issued, and a user message added, only with a video open,
\* isLoadingChat false and a non-blank input; isLoadingChat is true whenever
\* a sendMessage request is outstanding, also after the video was closed and
\* another one opened.
OneChatRequestInFlight ==
    [][/\ \A i \in Issued :
             reqs'[i].kind = "sendMessage" =>
                 /\ currentVideo # Null
                 /\ ~isLoadingChat
                 /\ reqs'[i].text # <<>>
                 /\ Trim(reqs'[i].text) = reqs'[i].text
       /\ (\A i \in Issued : reqs'[i].kind # "sendMessage") =>
             \/ IsPrefix(messages', messages)
             \/ \E i \in DOMAIN reqs : Runs(i)
       /\ SendsInFlight' # {} => isLoadingChat'
       /\ Cardinality(SendsInFlight') <= 1]_vars

\* C25: the ids of the notes in the store's list are pairwise distinct in
\* every reachable state, under any interleaving of the getNotes response
\* (setNotes) with createNote responses (addNote); the backend gives each
\* created note a fresh id.
NoteIdsDistinct ==
    \A j, k \in DOMAIN notes : notes[j].id = notes[k].id => j = k

\* every request of the notes panel has completed
NotesIdle ==
    \A i \in DOMAIN reqs :
        reqs[i].kind \in {"getNotes", "createNote", "updateNote", "deleteNote"} =>
            reqs[i].phase \in {"resolved", "rejected"}

\* the current video was opened once and has been open since
OpenedOnce ==
    /\ currentVideo # Null
    /\ Cardinality({i \in DOMAIN reqs : reqs[i].kind = "getNotes"}) = 1

\* C26: a created note is not lost.  If createNote succeeded for the current
\* video (the backend stored the note) and the video has stayed open, then
\* once the requests of the notes panel have completed the notes list
\* contains the note, whatever the order in which the createNote and
\* getNotes responses arrived.
CreatedNoteKept ==
    (OpenedOnce /\ NotesIdle) =>
        \A k \in DOMAIN dbNotes :
            (dbNotes[k].id \notin {Note1.id, Note2.id}
             /\ dbNotes[k].video_id = currentVideo) => InNotes(dbNotes[k].id)

NoteWrites == {"createNote", "updateNote", "deleteNote"}

\* C27: the notes list changes only after the backend confirms.  The step
\* in which handleCreateNote, handleUpdateNote or handleDeleteNote issues its
\* request leaves the store as it is, and create and update issue it only
\* for non-blank content; when the request fails the notes list is
\* unchanged and error is set to the message of the operation; the list
\* changes only when a request of the notes panel succeeds (or the video is
\* closed).
NotesChangeOnConfirm ==
    [][/\ \A i \in Issued :
             reqs'[i].kind \in NoteWrites =>
                 /\ notes' = notes
                 /\ error' = error
                 /\ reqs'[i].kind # "deleteNote" => reqs'[i].text # <<>>
       /\ \A i \in DOMAIN reqs :
             /\ Rejected(i, "createNote") =>
                   notes' = notes /\ error' = CreateFailedMessage
             /\ Rejected(i, "updateNote") =>
                   notes' = notes /\ error' = UpdateFailedMessage
             /\ Rejected(i, "deleteNote") =>
                   notes' = notes /\ error' = DeleteFailedMessage
       /\ notes' # notes =>
             \/ \E i \in DOMAIN reqs :
                   \E kind \in NoteWrites \cup {"getNotes"} : Resolved(i, kind)
             \/ currentVideo' = Null]_vars

\* a note's deletion has failed: the note is still listed and the banner
\* says so
DeleteFailedWitness ==
    /\ HasRun("deleteNote", "rejected")
    /\ error = DeleteFailedMessage
    /\ currentVideo = "A"
    /\ Len(notes) = 2

\* C28: every chat send terminates the loading state.  The step in which
\* the handler of a sendMessage request runs, on the reply or on the error,
\* sets isLoadingChat to false; isLoadingChat is never true with no
\* sendMessage request outstanding; and when every request completes,
\* isLoadingChat always becomes false again, so that a later send is
\* accepted.
SendEndsLoading ==
    /\ [][\A i \in DOMAIN reqs :
             (reqs[i].kind = "sendMessage" /\ Runs(i)) => ~isLoadingChat']_vars
    /\ [](isLoadingChat => SendsInFlight # {})
    /\ (isLoadingChat ~> ~isLoadingChat)

\* a send has completed and a later send was accepted
SecondSendWitness ==
    \E i, j \in DOMAIN reqs :
        /\ i < j
        /\ reqs[i].kind = "sendMessage" /\ reqs[i].phase = "resolved"
        /\ reqs[j].kind = "sendMessage" /\ reqs[j].phase = "pending"
        /\ isLoadingChat
        /\ Len(messages) = 5

\* C29: handleLoadVideo with a non-blank URL sets isLoadingVideo to true and
\* error to null in the step that issues its one request, for the trimmed
\* URL; on success it sets currentVideo to the video returned; on failure it
\* leaves currentVideo as it is and sets error to a non-null message; in
\* both cases isLoadingVideo is false afterwards.  With a blank URL no
\* request is issued.
LoadVideoOutcome ==
    [][/\ \A i \in Issued :
             reqs'[i].kind = "loadVideo" =>
                 /\ Issued = {i}
                 /\ isLoadingVideo'
                 /\ error' = Null
                 /\ currentVideo' = currentVideo
                 /\ reqs'[i].text # <<>>
                 /\ reqs'[i].text[1] # Space
                 /\ reqs'[i].text[Len(reqs'[i].text)] # Space
       /\ \A i \in DOMAIN reqs :
             /\ Resolved(i, "loadVideo") =>
                   /\ reqs[i].vid \in Videos
                   /\ currentVideo' = reqs[i].vid
                   /\ ~isLoadingVideo'
             /\ Rejected(i, "loadVideo") =>
                   /\ currentVideo' = currentVideo
                   /\ error' # Null
                   /\ ~isLoadingVideo']_vars

\* a load has failed and a later load has opened video B
LoadedAfterFailureWitness ==
    /\ HasRun("loadVideo", "rejected")
    /\ HasRun("loadVideo", "resolved")
    /\ currentVideo = "B"
    /\ ~isLoadingVideo
    /\ error = Null

\* C30: timestamp polling resumes after every drag.  The seeking flag of the
\* mounted player is true only while the user holds the thumb of the seek
\* bar, so it is never left true once the drag is over, and every
\* handleSeekStart is followed by the flag returning to false, after which
\* the polling interval writes the player's time again.
PollingResumesAfterDrag ==
    /\ [](Seeking => dragging)
    /\ (Seeking ~> ~Seeking)

====
